---- MODULE Spec2Model ----
(***************************************************************************)
(* B-tree of src/data_structures/tree/btree.py (BTreeNode, BTree).         *)
(*                                                                         *)
(* The heap of node objects is a function from node identities (positive   *)
(* integers) to records [values, children, parent]; children holds node    *)
(* identities, parent is a node identity or NULL (Python None).  Python    *)
(* indices are 0-based and are kept 0-based in every operator's interface; *)
(* sequences are indexed ix + 1.                                           *)
(*                                                                         *)
(* The base classes Tree / TreeNode and utils.bisect are imported by       *)
(* btree.py (lines 4-6) but their files are not part of the sources at     *)
(* hand; they are modelled from spec.md sections 4.2, 4.3 and 6.           *)
(***************************************************************************)
EXTENDS Integers, Sequences, FiniteSets, TLC

\* number of distinct keys the clients draw from
MaxKey == 10

\* the keys 10, 20, ..., 10 * MaxKey (the scenarios of spec.md section 8 use 10..50)
Keys == {10 * i : i \in 1..MaxKey}

\* the largest tree order m the model is run with
MaxOrder == 6

\* BTree(order) takes any integer.  An order m allows m - 1 keys in a node
\* (spec.md, glossary), so a tree of order 0 or 1 has no room for a key; the
\* model starts at order 2
Orders == 2..MaxOrder

\* the keys offered to a tree of order m.  A tree of order 4 needs 10 keys to
\* grow to depth 3 (an internal node splits, merges and rotates), a tree of
\* order 3 needs 7 and a tree of order 2 needs 3: order 2 is run with five
\* keys fewer, the other orders with two keys fewer.
KeysFor(m) ==
    IF m = 4 THEN Keys
    ELSE IF m = 2 THEN {k \in Keys : k <= 10 * (MaxKey - 5)}
    ELSE {k \in Keys : k <= 10 * (MaxKey - 2)}

\* the scripted scenario: insert 10, 20, 30, 40, 50 in order, then delete 10
Script == << [op |-> "insert", key |-> 10], [op |-> "insert", key |-> 20],
             [op |-> "insert", key |-> 30], [op |-> "insert", key |-> 40],
             [op |-> "insert", key |-> 50], [op |-> "delete", key |-> 10] >>

ScriptLen == Len(Script)

\* the deep scenario: a tree of order 5 is grown by inserting GrowLen keys in
\* ascending order.  The 17th key splits the root a second time (depth 3, all
\* nodes at their minimum); with 20 keys the right internal node holds 3 keys
\* and can donate to the left one, which holds the minimum of 2.
GrowLen == 20

\* the keys of the deep scenario
DeepKeys == {10 * i : i \in 1..GrowLen}

\* number of operations the clients choose freely once the tree is grown
DeepOps == 1

NULL == 0

VARIABLES
    tree_order,   \* Tree.order / TreeNode.tree_order: the order m
    nodes,        \* the heap: node identity -> [values, children, parent]
    root,         \* Tree.root
    present,      \* history: keys inserted and not deleted since
    last,         \* history: the last operation and the restructurings it made
    script        \* scenarios: operations performed (section 8: ScriptLen + 1 once past the script)

vars == <<tree_order, nodes, root, present, last, script>>

----------------------------------------------------------------------------
\* Python list primitives

Range(s) == {s[i] : i \in 1..Len(s)}

Min(a, b) == IF a < b THEN a ELSE b

\* s[lo:hi]
Slice(s, lo, hi) == SubSeq(s, Min(lo, Len(s)) + 1, Min(hi, Len(s)))

\* s.insert(ix, x)
InsertAt(s, ix, x) == Slice(s, 0, ix) \o <<x>> \o Slice(s, ix, Len(s))

\* s.pop(ix), the remaining list
RemoveAt(s, ix) == Slice(s, 0, ix) \o Slice(s, ix + 1, Len(s))

\* a fresh object identity
Alloc(h) ==
    CHOOSE i \in 1..(Cardinality(DOMAIN h) + 1) :
        i \notin DOMAIN h /\ \A j \in 1..(i - 1) : j \in DOMAIN h

----------------------------------------------------------------------------
\* TreeNode (base class)

\* TreeNode.__init__ (not among the sources at hand).  btree.py assigns
\* child.parent in rotate and after a merge only.  split (lines 41-46) and the
\* root branch of _split_insert (lines 176-180, through _create_node, lines
\* 111-112) build their nodes with this one constructor and hand it the
\* children.  The constructor is taken to set the parent of the children it is
\* given, as spec.md 4.2 step 3 and section 3 describe the tree after a split;
\* spec.md 4.1 puts that duty on the caller of split instead.
TreeNodeInit(h, id, children, values, parent) ==
    [n \in DOMAIN h \cup {id} |->
        IF n = id THEN [values |-> values, children |-> children, parent |-> parent]
        ELSE IF n \in Range(children) THEN [h[n] EXCEPT !.parent = id]
        ELSE h[n]]

is_leaf(h, n) == Len(h[n].children) = 0

is_root(h, n) == h[n].parent = NULL

order(h, n) == Len(h[n].values)

is_full(h, n) == order(h, n) >= tree_order

\* node.siblings(child_ix): <<left or NULL, right or NULL>>
siblings(h, n, child_ix) ==
    LET ch == h[h[n].parent].children
    IN  << IF child_ix >= 1 THEN ch[child_ix] ELSE NULL,
           IF child_ix + 2 <= Len(ch) THEN ch[child_ix + 2] ELSE NULL >>

\* utils.bisect: the number of values below v
bisect(values, v) == Cardinality({i \in 1..Len(values) : values[i] < v})

\* Tree._get_node_ix: index of the child of n whose key range holds value
get_node_ix(h, n, value) == bisect(h[n].values, value)

\* length of the leftmost path from the root to a leaf
RECURSIVE PathLen(_, _)
PathLen(h, n) == IF is_leaf(h, n) THEN 1 ELSE 1 + PathLen(h, h[n].children[1])

Depth(t) == PathLen(t.nodes, t.root)

\* one restructuring step of a running operation: its kind, the node it was
\* applied to, the other node involved (new right node, sibling, or new root),
\* the child index the step was called with, the tree before (t0) and after
\* (t1) the step and the depth of both
Event(kind, n, other, ix, t0, t1) ==
    [ev |-> kind, node |-> n, other |-> other, d0 |-> Depth(t0), d1 |-> Depth(t1),
     ix |-> ix,
     pre |-> [nodes |-> t0.nodes, root |-> t0.root],
     post |-> [nodes |-> t1.nodes, root |-> t1.root]]

----------------------------------------------------------------------------
\* BTreeNode

min_order == (tree_order + 1) \div 2

\* mutant: the lower median, floor((m-1)/2)
split_value_ix_lower == (tree_order - 1) \div 2

split_value_ix == tree_order \div 2

\* mutant: floor((m+1)/2) instead of ceil((m+1)/2)
split_child_ix_floor == (tree_order + 1) \div 2

split_child_ix == (tree_order + 2) \div 2

\* mutant: a sibling that holds just the minimum donates
is_min_internal_order_lax(h, n) == order(h, n) < min_order - 1

\* mutant: a sibling donates only when it holds two keys above the minimum
is_min_internal_order_strict(h, n) == order(h, n) < min_order + 1

is_min_internal_order(h, n) == order(h, n) < min_order

\* mutant: underflow noticed one key too late
is_min_leaf_order_late(h, n) == order(h, n) < min_order - 2

\* mutant: underflow noticed one key too early
is_min_leaf_order_early(h, n) == order(h, n) < min_order

is_min_leaf_order(h, n) == order(h, n) < min_order - 1

\* mutant: the children stay with the left half
split_keep_children(h, self) ==
    LET nd == h[self]
        h1 == [h EXCEPT ![self].values = Slice(@, 0, split_value_ix)]
        right_node == Alloc(h1)
    IN  [nodes |-> TreeNodeInit(h1, right_node, <<>>,
                                Slice(nd.values, split_value_ix + 1, Len(nd.values)),
                                nd.parent),
         split_value |-> nd.values[split_value_ix + 1],
         right_node |-> right_node]

\* mutant: the median stays in the right half as well
split_dup_median(h, self) ==
    LET nd == h[self]
        h1 == [h EXCEPT ![self].children = Slice(@, 0, split_child_ix),
                        ![self].values = Slice(@, 0, split_value_ix)]
        right_node == Alloc(h1)
    IN  [nodes |-> TreeNodeInit(h1, right_node,
                                Slice(nd.children, split_child_ix, Len(nd.children)),
                                Slice(nd.values, split_value_ix, Len(nd.values)),
                                nd.parent),
         split_value |-> nd.values[split_value_ix + 1],
         right_node |-> right_node]

\* mutant: the child at split_child_ix - 1 goes to both halves
split_share_child(h, self) ==
    LET nd == h[self]
        h1 == [h EXCEPT ![self].children = Slice(@, 0, split_child_ix),
                        ![self].values = Slice(@, 0, split_value_ix)]
        right_node == Alloc(h1)
    IN  [nodes |-> TreeNodeInit(h1, right_node,
                                Slice(nd.children, split_child_ix - 1, Len(nd.children)),
                                Slice(nd.values, split_value_ix + 1, Len(nd.values)),
                                nd.parent),
         split_value |-> nd.values[split_value_ix + 1],
         right_node |-> right_node]

\* BTreeNode.split: [nodes, split_value, right_node]
split(h, self) ==
    LET nd == h[self]
        right_children == Slice(nd.children, split_child_ix, Len(nd.children))
        split_value == nd.values[split_value_ix + 1]
        right_values == Slice(nd.values, split_value_ix + 1, Len(nd.values))
        h1 == [h EXCEPT ![self].children = Slice(@, 0, split_child_ix),
                        ![self].values = Slice(@, 0, split_value_ix)]
        right_node == Alloc(h1)
    IN  [nodes |-> TreeNodeInit(h1, right_node, right_children, right_values, nd.parent),
         split_value |-> split_value,
         right_node |-> right_node]

\* mutant: the borrowed key goes straight to the receiver, the parent keeps its key
rotate_direct(h, self, parent_value_ix, adj_node, go_left) ==
    LET adj == h[adj_node]
        new_root == IF go_left THEN adj.values[Len(adj.values)] ELSE adj.values[1]
        h2 == [h EXCEPT ![adj_node].values =
                            IF go_left THEN RemoveAt(@, Len(@) - 1) ELSE RemoveAt(@, 0),
                        ![self].values =
                            IF go_left THEN InsertAt(@, 0, new_root) ELSE Append(@, new_root)]
    IN  IF ~is_leaf(h2, adj_node)
        THEN LET child == IF go_left THEN adj.children[Len(adj.children)]
                                     ELSE adj.children[1]
                 h3 == [h2 EXCEPT ![adj_node].children =
                                     IF go_left THEN RemoveAt(@, Len(@) - 1)
                                                ELSE RemoveAt(@, 0),
                                  ![child].parent = self]
             IN  [h3 EXCEPT ![self].children =
                                IF go_left THEN InsertAt(@, 0, child)
                                           ELSE Append(@, child)]
        ELSE h2

\* mutant: the key is taken from the far end of the adjacent node
rotate_far_end(h, self, parent_value_ix, adj_node, go_left) ==
    LET parent == h[self].parent
        adj == h[adj_node]
        new_root == IF go_left THEN adj.values[1] ELSE adj.values[Len(adj.values)]
        new_sibling == h[parent].values[parent_value_ix + 1]
        h1 == [h EXCEPT ![adj_node].values =
                            IF go_left THEN RemoveAt(@, 0) ELSE RemoveAt(@, Len(@) - 1),
                        ![parent].values[parent_value_ix + 1] = new_root]
        h2 == [h1 EXCEPT ![self].values =
                            IF go_left THEN InsertAt(@, 0, new_sibling)
                                       ELSE Append(@, new_sibling)]
    IN  IF ~is_leaf(h2, adj_node)
        THEN LET child == IF go_left THEN adj.children[Len(adj.children)]
                                     ELSE adj.children[1]
                 h3 == [h2 EXCEPT ![adj_node].children =
                                     IF go_left THEN RemoveAt(@, Len(@) - 1)
                                                ELSE RemoveAt(@, 0),
                                  ![child].parent = self]
             IN  [h3 EXCEPT ![self].children =
                                IF go_left THEN InsertAt(@, 0, child)
                                           ELSE Append(@, child)]
        ELSE h2

\* BTreeNode.rotate
rotate(h, self, parent_value_ix, adj_node, go_left) ==
    LET parent == h[self].parent
        adj == h[adj_node]
        new_root == IF go_left THEN adj.values[Len(adj.values)] ELSE adj.values[1]
        new_sibling == h[parent].values[parent_value_ix + 1]
        h1 == [h EXCEPT ![adj_node].values =
                            IF go_left THEN RemoveAt(@, Len(@) - 1) ELSE RemoveAt(@, 0),
                        ![parent].values[parent_value_ix + 1] = new_root]
        h2 == [h1 EXCEPT ![self].values =
                            IF go_left THEN InsertAt(@, 0, new_sibling)
                                       ELSE Append(@, new_sibling)]
    IN  IF ~is_leaf(h2, adj_node)
        THEN LET child == IF go_left THEN adj.children[Len(adj.children)]
                                     ELSE adj.children[1]
                 h3 == [h2 EXCEPT ![adj_node].children =
                                     IF go_left THEN RemoveAt(@, Len(@) - 1)
                                                ELSE RemoveAt(@, 0),
                                  ![child].parent = self]
             IN  [h3 EXCEPT ![self].children =
                                IF go_left THEN InsertAt(@, 0, child)
                                           ELSE Append(@, child)]
        ELSE h2

\* BTreeNode.transfer
transfer(h, self, parent_value_ix, adj_node, go_left) ==
    rotate(h, self, parent_value_ix, adj_node, go_left)

\* mutant: the separating key is taken from the parent but not kept
merge_drop_key(h, self, child_ix, parent_value_ix, adj_node, go_left) ==
    LET parent == h[self].parent
        h1 == [h EXCEPT ![parent].values = RemoveAt(@, parent_value_ix)]
    IN  IF go_left
        THEN [h1 EXCEPT ![self].values = h[adj_node].values \o @,
                        ![self].children = h[adj_node].children \o @,
                        ![parent].children = RemoveAt(@, child_ix - 1)]
        ELSE [h1 EXCEPT ![self].values = @ \o h[adj_node].values,
                        ![self].children = @ \o h[adj_node].children,
                        ![parent].children = RemoveAt(@, child_ix + 1)]

\* mutant: the parent drops the slot of the merging node, not the adjacent one
merge_own_slot(h, self, child_ix, parent_value_ix, adj_node, go_left) ==
    LET parent == h[self].parent
        value == h[parent].values[parent_value_ix + 1]
        h1 == [h EXCEPT ![parent].values = RemoveAt(@, parent_value_ix)]
    IN  IF go_left
        THEN [h1 EXCEPT ![self].values = h[adj_node].values \o <<value>> \o @,
                        ![self].children = h[adj_node].children \o @,
                        ![parent].children = RemoveAt(@, child_ix)]
        ELSE [h1 EXCEPT ![self].values = @ \o <<value>> \o h[adj_node].values,
                        ![self].children = @ \o h[adj_node].children,
                        ![parent].children = RemoveAt(@, child_ix)]

\* BTreeNode.merge
merge(h, self, child_ix, parent_value_ix, adj_node, go_left) ==
    LET parent == h[self].parent
        value == h[parent].values[parent_value_ix + 1]
        h1 == [h EXCEPT ![parent].values = RemoveAt(@, parent_value_ix)]
    IN  IF go_left
        THEN [h1 EXCEPT ![self].values = h[adj_node].values \o <<value>> \o @,
                        ![self].children = h[adj_node].children \o @,
                        ![parent].children = RemoveAt(@, child_ix - 1)]
        ELSE [h1 EXCEPT ![self].values = @ \o <<value>> \o h[adj_node].values,
                        ![self].children = @ \o h[adj_node].children,
                        ![parent].children = RemoveAt(@, child_ix + 1)]

----------------------------------------------------------------------------
\* BTree.  A tree value t is [nodes, root, log, ret]: the heap, Tree.root, the
\* restructurings made so far by the running operation, and the value returned
\* by the last call of _split_insert.

\* the loop "for child in node.children: child.parent = node"
Reparent(h, node) ==
    [n \in DOMAIN h |->
        IF n \in Range(h[node].children) THEN [h[n] EXCEPT !.parent = node] ELSE h[n]]

\* mutant: the new root keeps its reference to the old root
collapse_keep_parent(t, child_ix, node) ==
    LET c == t.nodes[node].children[1]
        t1 == [t EXCEPT !.root = c]
    IN  [t1 EXCEPT !.log = Append(@, Event("collapse", node, c, child_ix, t, t1))]

\* BTree._delete_min_order, the branch node.is_root()
collapse(t, child_ix, node) ==
    LET c == t.nodes[node].children[1]
        t1 == [t EXCEPT !.root = c, !.nodes[c].parent = NULL]
    IN  [t1 EXCEPT !.log = Append(@, Event("collapse", node, c, child_ix, t, t1))]

\* mutant: the parent is handed to the underflow resolution after every merge
cascades_always(h, parent) == TRUE

\* mutant: a parent left without keys is not looked at when it is the root
cascades_below_min(h, parent) == ~is_root(h, parent) /\ is_min_leaf_order(h, parent)

\* BTree._delete_min_order, the test made on the parent after a merge
cascades(h, parent) ==
    order(h, parent) = 0 \/ (~is_root(h, parent) /\ is_min_leaf_order(h, parent))

RECURSIVE delete_min_order(_, _, _)

\* mutant: the cascade is continued with the grandparent in place of the parent
delete_min_order_skip(t, child_ix, node) ==
    LET h == t.nodes IN
    IF is_root(h, node)
    THEN collapse(t, child_ix, node)
    ELSE
      LET parent == h[node].parent
          sib == siblings(h, node, child_ix)
          left_node == sib[1]
          right_node == sib[2]
      IN  IF left_node # NULL /\ ~is_min_internal_order(h, left_node)
          THEN LET t1 == [t EXCEPT !.nodes = transfer(h, node, child_ix - 1, left_node, TRUE)]
               IN  [t1 EXCEPT !.log = Append(@, Event("rotate", node, left_node, child_ix, t, t1))]
          ELSE IF right_node # NULL /\ ~is_min_internal_order(h, right_node)
          THEN LET t1 == [t EXCEPT !.nodes = transfer(h, node, child_ix, right_node, FALSE)]
               IN  [t1 EXCEPT !.log = Append(@, Event("rotate", node, right_node, child_ix, t, t1))]
          ELSE
            LET h1 == IF left_node # NULL
                      THEN merge(h, node, child_ix, child_ix - 1, left_node, TRUE)
                      ELSE IF right_node # NULL
                      THEN merge(h, node, child_ix, child_ix, right_node, FALSE)
                      ELSE h
                h2 == Reparent(h1, node)
                t1 == [t EXCEPT !.nodes = h2]
                t2 == [t1 EXCEPT !.log = Append(@, Event("merge", node,
                                       IF left_node # NULL THEN left_node ELSE right_node,
                                       child_ix, t, t1))]
            IN  IF cascades(h2, parent)
                THEN LET grandparent == h2[parent].parent
                     IN  IF grandparent # NULL
                         THEN delete_min_order(t2, 0, grandparent)
                         ELSE delete_min_order(t2, 0, parent)
                ELSE t2

\* BTree._delete_min_order
delete_min_order(t, child_ix, node) ==
    LET h == t.nodes IN
    IF is_root(h, node)
    THEN collapse(t, child_ix, node)
    ELSE
      LET parent == h[node].parent
          sib == siblings(h, node, child_ix)
          left_node == sib[1]
          right_node == sib[2]
      IN  IF left_node # NULL /\ ~is_min_internal_order(h, left_node)
          THEN LET t1 == [t EXCEPT !.nodes = transfer(h, node, child_ix - 1, left_node, TRUE)]
               IN  [t1 EXCEPT !.log = Append(@, Event("rotate", node, left_node, child_ix, t, t1))]
          ELSE IF right_node # NULL /\ ~is_min_internal_order(h, right_node)
          THEN LET t1 == [t EXCEPT !.nodes = transfer(h, node, child_ix, right_node, FALSE)]
               IN  [t1 EXCEPT !.log = Append(@, Event("rotate", node, right_node, child_ix, t, t1))]
          ELSE
            LET h1 == IF left_node # NULL
                      THEN merge(h, node, child_ix, child_ix - 1, left_node, TRUE)
                      ELSE IF right_node # NULL
                      THEN merge(h, node, child_ix, child_ix, right_node, FALSE)
                      ELSE h
                h2 == Reparent(h1, node)
                t1 == [t EXCEPT !.nodes = h2]
                t2 == [t1 EXCEPT !.log = Append(@, Event("merge", node,
                                       IF left_node # NULL THEN left_node ELSE right_node,
                                       child_ix, t, t1))]
            IN  IF cascades(h2, parent)
                THEN LET grandparent == h2[parent].parent
                         parent_ix == IF grandparent # NULL
                                      THEN get_node_ix(h2, grandparent, h2[node].values[1])
                                      ELSE 0
                     IN  delete_min_order(t2, parent_ix, parent)
                ELSE t2

\* BTree._on_delete
on_delete(t, child_ix, node) ==
    IF is_min_leaf_order(t.nodes, node) /\ ~is_root(t.nodes, node)
    THEN delete_min_order(t, child_ix, node)
    ELSE t

\* mutant: the new right node is put before the node that was split
link_before(h, parent, split_value, right_node) ==
    LET child_ix == get_node_ix(h, parent, split_value)
    IN  [h EXCEPT ![parent].children = InsertAt(@, child_ix, right_node),
                  ![parent].values = InsertAt(@, child_ix, split_value)]

\* BTree._split_insert, the branch not node.is_root(): the new right node and
\* the median are put into the parent
link(h, parent, split_value, right_node) ==
    LET child_ix == get_node_ix(h, parent, split_value)
    IN  [h EXCEPT ![parent].children = InsertAt(@, child_ix + 1, right_node),
                  ![parent].values = InsertAt(@, child_ix, split_value)]

\* BTree._split_insert
RECURSIVE split_insert(_, _)
split_insert(t, node) ==
    LET s == split(t.nodes, node)
        parent == s.nodes[node].parent
        was_root == is_root(s.nodes, node)
        linked ==
            IF ~was_root
            THEN [nodes |-> link(s.nodes, parent, s.split_value, s.right_node),
                  root |-> t.root,
                  parent |-> parent]
            ELSE LET new == Alloc(s.nodes)
                 IN  [nodes |-> TreeNodeInit(s.nodes, new, <<node, s.right_node>>,
                                             <<s.split_value>>, parent),
                      root |-> new,
                      parent |-> new]
        t1 == [nodes |-> linked.nodes, root |-> linked.root, log |-> t.log, ret |-> node]
        t2 == [t1 EXCEPT !.log = Append(@, Event(IF was_root THEN "root_split" ELSE "split",
                                                 node, s.right_node, 0, t, t1))]
    IN  IF is_full(t2.nodes, linked.parent)
        THEN split_insert(t2, linked.parent)
        ELSE t2

\* BTree._on_insert: input_value is already stored at value_ix of node when
\* the hook is called, and the hook of the base class changes nothing
on_insert(t, input_value, value_ix, node) ==
    IF is_full(t.nodes, node) THEN split_insert(t, node) ELSE t

----------------------------------------------------------------------------
\* Tree (base class): the tree walk

\* the leaf in which value belongs
RECURSIVE FindLeaf(_, _, _)
FindLeaf(h, n, value) ==
    IF is_leaf(h, n) THEN n
    ELSE FindLeaf(h, h[n].children[get_node_ix(h, n, value) + 1], value)

\* the node that stores value
RECURSIVE FindNode(_, _, _)
FindNode(h, n, value) ==
    IF value \in Range(h[n].values) THEN n
    ELSE FindNode(h, h[n].children[get_node_ix(h, n, value) + 1], value)

\* the rightmost leaf below n
RECURSIVE MaxLeaf(_, _)
MaxLeaf(h, n) ==
    IF is_leaf(h, n) THEN n ELSE MaxLeaf(h, h[n].children[Len(h[n].children)])

\* index of n among the children of its parent (0 for the root)
ChildIx(h, n) ==
    IF h[n].parent = NULL THEN 0
    ELSE (CHOOSE i \in 1..Len(h[h[n].parent].children) : h[h[n].parent].children[i] = n) - 1

\* the nodes reachable from n, in pre-order
RECURSIVE Preorder(_, _)
RECURSIVE PreorderAll(_, _)
Preorder(h, n) == <<n>> \o PreorderAll(h, h[n].children)
PreorderAll(h, ch) ==
    IF ch = <<>> THEN <<>> ELSE Preorder(h, Head(ch)) \o PreorderAll(h, Tail(ch))

\* Object identities carry no meaning beyond equality: once an operation has
\* returned, the objects reachable from Tree.root are numbered in pre-order and
\* the unreachable ones, which are gone from the heap, are numbered after them.
Rename(h, pre, id) ==
    IF id = NULL THEN NULL
    ELSE IF id \in Range(pre) THEN CHOOSE i \in 1..Len(pre) : pre[i] = id
    ELSE Len(pre) + Cardinality({d \in DOMAIN h \ Range(pre) : d <= id})

Collect(t) ==
    LET h == t.nodes
        pre == Preorder(h, t.root)
    IN  [nodes |-> [i \in 1..Len(pre) |->
                       [values |-> h[pre[i]].values,
                        children |-> [j \in 1..Len(h[pre[i]].children) |->
                                         Rename(h, pre, h[pre[i]].children[j])],
                        parent |-> Rename(h, pre, h[pre[i]].parent)]],
         root |-> Rename(h, pre, t.root),
         log |-> [e \in 1..Len(t.log) |->
                     [ev |-> t.log[e].ev,
                      node |-> Rename(h, pre, t.log[e].node),
                      other |-> Rename(h, pre, t.log[e].other),
                      d0 |-> t.log[e].d0,
                      d1 |-> t.log[e].d1]],
         ret |-> Rename(h, pre, t.ret)]

Start(h, r) == [nodes |-> h, root |-> r, log |-> <<>>, ret |-> NULL]

\* the run of Tree.insert of a value not stored yet: the tree it ends with,
\* the steps it made and the value its last call of _split_insert returned
insert_run(h, r, value) ==
    LET leaf == FindLeaf(h, r, value)
        value_ix == bisect(h[leaf].values, value)
    IN  on_insert(Start([h EXCEPT ![leaf].values = InsertAt(@, value_ix, value)], r),
                  value, value_ix, leaf)

\* Tree.insert of a value not stored yet
insert(h, r, value) == Collect(insert_run(h, r, value))

\* the run of Tree.delete of a stored value
delete_run(h, r, value) ==
    LET n == FindNode(h, r, value)
        ix == bisect(h[n].values, value)
    IN  IF is_leaf(h, n)
        THEN on_delete(Start([h EXCEPT ![n].values = RemoveAt(@, ix)], r),
                       ChildIx(h, n), n)
        ELSE LET leaf == MaxLeaf(h, h[n].children[ix + 1])
                 pred == h[leaf].values[Len(h[leaf].values)]
                 h1 == [h EXCEPT ![n].values[ix + 1] = pred,
                                 ![leaf].values = RemoveAt(@, Len(@) - 1)]
             IN  on_delete(Start(h1, r), ChildIx(h, leaf), leaf)

\* Tree.delete of a key stored in an internal node takes its predecessor from
\* the rightmost leaf below the child before the key.  A split in a tree of
\* order 2 leaves the right node without keys, so that leaf can be empty; the
\* walk is then not followed any further.
HasPredecessor(h, r, value) ==
    LET n == FindNode(h, r, value)
    IN  IF is_leaf(h, n) THEN TRUE
        ELSE h[MaxLeaf(h, h[n].children[bisect(h[n].values, value) + 1])].values # <<>>

\* Tree.delete of a stored value
delete(h, r, value) == Collect(delete_run(h, r, value))

\* the keys stored in the subtree of n
RECURSIVE KeysOf(_, _)
KeysOf(h, n) ==
    Range(h[n].values) \cup UNION {KeysOf(h, h[n].children[i]) : i \in 1..Len(h[n].children)}

----------------------------------------------------------------------------
\* The state machine

NoOp == [op |-> "none", log |-> <<>>, d0 |-> 1]

InitTree ==
    /\ nodes = <<[values |-> <<>>, children |-> <<>>, parent |-> NULL]>>
    /\ root = 1
    /\ present = {}
    /\ last = NoOp

Init ==
    /\ tree_order \in Orders
    /\ InitTree
    /\ script = 0

Apply(opname, t) ==
    /\ nodes' = t.nodes
    /\ root' = t.root
    /\ last' = [op |-> opname, log |-> t.log, d0 |-> PathLen(nodes, root)]
    /\ UNCHANGED tree_order

Insert(k) ==
    /\ k \notin KeysOf(nodes, root)
    /\ Apply("insert", insert(nodes, root, k))
    /\ present' = present \cup {k}

Delete(k) ==
    /\ k \in KeysOf(nodes, root)
    /\ HasPredecessor(nodes, root, k)
    /\ Apply("delete", delete(nodes, root, k))
    /\ present' = present \ {k}

DoInsert == \E k \in KeysFor(tree_order) : Insert(k) /\ UNCHANGED script

DoDelete == \E k \in KeysFor(tree_order) : Delete(k) /\ UNCHANGED script

Next == DoInsert \/ DoDelete

Spec == Init /\ [][Next]_vars

\* The scenario of spec.md section 8: order 4, the scripted operations first,
\* any operation afterwards.
InitScenario ==
    /\ tree_order = 4
    /\ InitTree
    /\ script = 0

ScriptInsert ==
    /\ script < ScriptLen
    /\ Script[script + 1].op = "insert"
    /\ Insert(Script[script + 1].key)
    /\ script' = script + 1

ScriptDelete ==
    /\ script < ScriptLen
    /\ Script[script + 1].op = "delete"
    /\ Delete(Script[script + 1].key)
    /\ script' = script + 1

AfterScript ==
    /\ script >= ScriptLen
    /\ \E k \in KeysFor(tree_order) : Insert(k) \/ Delete(k)
    /\ script' = ScriptLen + 1

NextScenario == ScriptInsert \/ ScriptDelete \/ AfterScript

SpecScenario == InitScenario /\ [][NextScenario]_vars

\* Any workload of Spec, or else the deep scenario: a tree of order 5 grown by
\* GrowLen ascending inserts, then DeepOps operations on any of its keys.  The
\* claims about the steps of an operation look at every operation that can be
\* started in a reachable state, one operation beyond DeepOps.
Grow ==
    /\ tree_order = 5
    /\ script < GrowLen
    /\ script = 0 => present = {}
    /\ Insert(10 * (script + 1))
    /\ script' = script + 1

DeepOp ==
    /\ tree_order = 5
    /\ script >= GrowLen
    /\ script < GrowLen + DeepOps
    /\ \E k \in DeepKeys : Insert(k) \/ Delete(k)
    /\ script' = script + 1

Shallow == script = 0 /\ (DoInsert \/ DoDelete)

NextDeep == Shallow \/ Grow \/ DeepOp

SpecDeep == Init /\ [][NextDeep]_vars

\* the keys the clients of the current state draw from
Pool == IF tree_order = 5 /\ script > 0 THEN DeepKeys ELSE KeysFor(tree_order)

----------------------------------------------------------------------------
\* Observations on a tree (h, r)

\* the depths (root = 1) of the leaves below n, n being at depth d
RECURSIVE LeafDepths(_, _, _)
LeafDepths(h, n, d) ==
    IF is_leaf(h, n) THEN {d}
    ELSE UNION {LeafDepths(h, h[n].children[i], d + 1) : i \in 1..Len(h[n].children)}

\* in-order traversal of the subtree of n
RECURSIVE InOrder(_, _)
RECURSIVE InOrderFrom(_, _, _)
InOrder(h, n) == IF is_leaf(h, n) THEN h[n].values ELSE InOrderFrom(h, n, 1)
InOrderFrom(h, n, i) ==
    IF i > Len(h[n].children) THEN <<>>
    ELSE InOrder(h, h[n].children[i])
         \o (IF i <= Len(h[n].values) THEN <<h[n].values[i]>> ELSE <<>>)
         \o InOrderFrom(h, n, i + 1)

\* the elements of a set of integers in ascending order
RECURSIVE Ascending(_)
Ascending(S) ==
    IF S = {} THEN <<>>
    ELSE LET lo == CHOOSE x \in S : \A y \in S : x <= y
         IN  <<lo>> \o Ascending(S \ {lo})

KeyCountOK(h, r) ==
    \A n \in DOMAIN h :
        /\ Len(h[n].values) <= tree_order - 1
        /\ n # r => Len(h[n].values) >= (tree_order + 1) \div 2 - 1

ChildCountOK(h) ==
    \A n \in DOMAIN h :
        Len(h[n].children) = 0 \/ Len(h[n].children) = Len(h[n].values) + 1

UniformDepth(h, r) == Cardinality(LeafDepths(h, r, 1)) = 1

OrderingOK(h) ==
    \A n \in DOMAIN h :
        /\ \A i \in 1..(Len(h[n].values) - 1) : h[n].values[i] < h[n].values[i + 1]
        /\ \A i \in 1..Len(h[n].children) : \A k \in KeysOf(h, h[n].children[i]) :
              /\ (i >= 2 /\ i - 1 <= Len(h[n].values)) => h[n].values[i - 1] < k
              /\ i <= Len(h[n].values) => k < h[n].values[i]

Events == {last.log[i] : i \in 1..Len(last.log)}

Count(kind) == Cardinality({i \in 1..Len(last.log) : last.log[i].ev = kind})

NonRoot == DOMAIN nodes \ {root}

\* P holds of the run of every insert a client can start in the current state
EveryInsert(P(_)) ==
    \A k \in Pool \ KeysOf(nodes, root) :
        \A t \in {insert_run(nodes, root, k)} : P(t)

\* P holds of the run of every delete a client can start in the current state
EveryDelete(P(_)) ==
    \A k \in {x \in KeysOf(nodes, root) : HasPredecessor(nodes, root, x)} :
        \A t \in {delete_run(nodes, root, k)} : P(t)

\* P holds of every restructuring step of every such insert
EveryInsertStep(P(_)) == EveryInsert(LAMBDA t : \A i \in 1..Len(t.log) : P(t.log[i]))

\* P holds of every restructuring step of every such delete
EveryDeleteStep(P(_)) == EveryDelete(LAMBDA t : \A i \in 1..Len(t.log) : P(t.log[i]))

Splits == {"split", "root_split"}

Floor2(m) == m \div 2

Ceil2(m) == (m + 1) \div 2

----------------------------------------------------------------------------
\* C1: after every completed insert or delete, every non-root node holds at
\* least ceil(m/2)-1 and at most m-1 keys, and the root holds at most m-1 keys.
C1_KeyCountBounds == KeyCountOK(nodes, root)

\* a delete that merged, in a tree holding a minimal and a maximal non-root node
C1_Witness ==
    /\ last.op = "delete"
    /\ Count("merge") >= 1
    /\ \E n \in NonRoot : Len(nodes[n].values) = (tree_order + 1) \div 2 - 1
    /\ \E n \in NonRoot : Len(nodes[n].values) = tree_order - 1

\* C2: after every completed insert or delete the keys of every node are
\* strictly ascending and every key below child i lies strictly between the
\* node's keys i-1 and i.
C2_SearchOrder == OrderingOK(nodes)

\* a delete that merged and then rotated one level up
C2_Witness ==
    /\ Count("merge") >= 1
    /\ Count("rotate") >= 1
    /\ PathLen(nodes, root) >= 3

\* C3: after every completed insert or delete all leaves are at the same depth;
\* a non-root split, a rotation and a merge leave the depth as it is, a root
\* split adds exactly one level and a root collapse removes exactly one.
C3_UniformDepth ==
    /\ UniformDepth(nodes, root)
    /\ \A e \in Events :
          /\ e.ev \in {"split", "rotate", "merge"} => e.d1 = e.d0
          /\ e.ev = "root_split" => e.d1 = e.d0 + 1
          /\ e.ev = "collapse" => e.d1 = e.d0 - 1
    /\ PathLen(nodes, root) = last.d0 + Count("root_split") - Count("collapse")

\* an insert whose chain of splits ends in a root split of an internal root
C3_Witness ==
    /\ Count("split") >= 1
    /\ Count("root_split") = 1
    /\ PathLen(nodes, root) = 3

\* C4: after every completed insert or delete every internal node has exactly
\* one more child than keys (a leaf being a node without children).
C4_ChildCount == ChildCountOK(nodes)

\* an internal node of a tree of even order was split
C4_Witness ==
    /\ tree_order = 4
    /\ \E e \in Events : e.ev \in {"split", "root_split"} /\ ~is_leaf(nodes, e.node)

\* C5: the in-order traversal is exactly the keys inserted (and not deleted
\* since) in ascending order; in particular after N inserts of distinct keys
\* into the empty tree it is those N keys ascending.
C5_InOrderSorted == InOrder(nodes, root) = Ascending(present)

\* every key is stored and the last insert ran a chain of splits
C5_Witness ==
    /\ present = KeysFor(tree_order)
    /\ last.op = "insert"
    /\ Len(last.log) >= 2

\* the tree after inserting k and deleting it again
RoundTrip(k) ==
    LET a == insert(nodes, root, k) IN delete(a.nodes, a.root, k)

\* C7: inserting a key that is not stored and deleting it again gives a tree
\* with the same key set that satisfies the balance bounds.
C7_RoundTrip ==
    \A k \in KeysFor(tree_order) \ KeysOf(nodes, root) : \A b \in {RoundTrip(k)} :
        /\ KeysOf(b.nodes, b.root) = KeysOf(nodes, root)
        /\ KeyCountOK(b.nodes, b.root)
        /\ ChildCountOK(b.nodes)
        /\ UniformDepth(b.nodes, b.root)

\* a round trip in which both the insert and the delete restructure the tree
\* and the shape is not restored
C7_Witness ==
    \E k \in KeysFor(tree_order) \ KeysOf(nodes, root) :
        /\ Len(insert(nodes, root, k).log) >= 1
        /\ Len(RoundTrip(k).log) >= 1
        /\ RoundTrip(k).nodes # nodes

\* the keys of the children of the root, left to right
RootChildren == [i \in 1..Len(nodes[root].children) |-> nodes[nodes[root].children[i]].values]

\* C8 as stated: inserting 40 promotes 20, giving root [20] over [10] and
\* [30,40]; 50 then joins [30,40] without a split.
C8_AsStated ==
    /\ script = 4 => /\ nodes[root].values = <<20>>
                     /\ RootChildren = << <<10>>, <<30, 40>> >>
    /\ script = 5 => /\ nodes[root].values = <<20>>
                     /\ RootChildren = << <<10>>, <<30, 40, 50>> >>
                     /\ last.log = <<>>

\* C8 amended: inserting 40 splits the root and promotes 30 (index floor(4/2)
\* of [10,20,30,40]), giving root [30] over [10,20] and [40]; 50 then joins
\* [40], which holds 2 keys and is not split.
C8_Scenario ==
    /\ script = 3 => /\ nodes[root].values = <<10, 20, 30>>
                     /\ is_leaf(nodes, root)
    /\ script = 4 => /\ nodes[root].values = <<30>>
                     /\ RootChildren = << <<10, 20>>, <<40>> >>
                     /\ Count("root_split") = 1
                     /\ Len(last.log) = 1
    /\ script = 5 => /\ nodes[root].values = <<30>>
                     /\ RootChildren = << <<10, 20>>, <<40, 50>> >>
                     /\ last.log = <<>>

\* the five inserts of the scenario are done
C8_Witness == script = 5 /\ last.op = "insert"

\* C9 as stated: deleting 10 from the five-key tree underflows the left leaf,
\* which borrows 30 from the right sibling by one rotation, giving root [30]
\* over [20] and [40,50].
C9_AsStated ==
    script = 6 => /\ Len(last.log) = 1
                  /\ Count("rotate") = 1
                  /\ nodes[root].values = <<30>>
                  /\ RootChildren = << <<20>>, <<40, 50>> >>

\* C9 amended: the five-key tree is root [30] over [10,20] and [40,50];
\* deleting 10 leaves the left leaf with [20], which is not below the minimum,
\* so nothing is borrowed or merged and the result is root [30] over [20] and
\* [40,50].
C9_Scenario ==
    script = 6 => /\ last.op = "delete"
                  /\ last.log = <<>>
                  /\ nodes[root].values = <<30>>
                  /\ RootChildren = << <<20>>, <<40, 50>> >>

\* the delete of the scenario is done
C9_Witness == script = 6 /\ last.op = "delete" /\ present = {20, 30, 40, 50}

\* C10: a root collapse is the last step of a delete; its child is the root
\* afterwards and has no parent, the old root is no longer in the tree, the
\* depth is one less than before the collapse; and no delete leaves a root
\* with 0 keys above a child.
C10_RootCollapse ==
    /\ \A i \in 1..Len(last.log) :
          last.log[i].ev = "collapse" =>
              /\ last.op = "delete"
              /\ i = Len(last.log)
              /\ last.log[i].other = root
              /\ nodes[root].parent = NULL
              /\ last.log[i].node \notin DOMAIN nodes
              /\ PathLen(nodes, root) = last.log[i].d0 - 1
              /\ PathLen(nodes, root) = last.d0 - 1
    /\ ~(Len(nodes[root].values) = 0 /\ ~is_leaf(nodes, root))

\* a delete collapsed the root of a tree of depth 3
C10_Witness ==
    /\ Count("collapse") = 1
    /\ last.d0 = 3

\* split() applied to the node e.node of the heap e.pre.nodes
SplitOK(e) ==
    LET h == e.pre.nodes
        m == tree_order
        old == h[e.node]
        s == split(h, e.node)
        left == s.nodes[e.node]
        right == s.nodes[s.right_node]
    IN  /\ Len(old.values) = m
        /\ ~is_leaf(h, e.node) => Len(old.children) = m + 1
        /\ s.split_value = old.values[Floor2(m) + 1]
        /\ s.right_node \notin DOMAIN h
        /\ left.values = SubSeq(old.values, 1, Floor2(m))
        /\ Len(left.values) = Floor2(m)
        /\ right.values = SubSeq(old.values, Floor2(m) + 2, m)
        /\ Len(right.values) = Ceil2(m) - 1
        /\ s.split_value \notin Range(left.values) \cup Range(right.values)
        /\ is_leaf(h, e.node) => left.children = <<>> /\ right.children = <<>>
        /\ ~is_leaf(h, e.node) =>
              /\ left.children = SubSeq(old.children, 1, Ceil2(m + 1))
              /\ right.children = SubSeq(old.children, Ceil2(m + 1) + 1, m + 1)
              /\ Len(left.children) = Len(left.values) + 1
              /\ Len(right.children) = Len(right.values) + 1
        /\ \A n \in DOMAIN h \ {e.node} :
              s.nodes[n].values = h[n].values /\ s.nodes[n].children = h[n].children

\* C11: split() is called on a node with exactly m keys (m+1 children if
\* internal); it returns the key at index floor(m/2) and a new node; the
\* original keeps the floor(m/2) keys below the median, the new node holds the
\* ceil(m/2)-1 keys above it, the median is in neither; the children from index
\* ceil((m+1)/2) on go to the new node in order, the original keeps the ones
\* before, and each half has one more child than keys.
C11_Split == EveryInsertStep(LAMBDA e : e.ev \in Splits => SplitOK(e))

\* an insert into a tree of odd order split a leaf and then the internal root,
\* whose new right node took over ceil(m/2) children
C11_Witness ==
    /\ tree_order = 3
    /\ Len(last.log) = 2
    /\ last.log[1].ev = "split"
    /\ is_leaf(nodes, last.log[1].node)
    /\ last.log[2].ev = "root_split"
    /\ Len(nodes[last.log[2].other].children) = Ceil2(tree_order)

\* the sequence s without its last element
Front(s) == SubSeq(s, 1, Len(s) - 1)

\* the adjacent node of step e is the left sibling of the node of step e
GoLeft(e) ==
    LET ch == e.pre.nodes[e.pre.nodes[e.node].parent].children
    IN  e.ix >= 1 /\ ch[e.ix] = e.other

\* the effect of the rotation e on the node, its parent and the adjacent node
RotateOK(e) ==
    LET h == e.pre.nodes
        g == e.post.nodes
        n == e.node
        adj == e.other
        p == h[n].parent
        go_left == GoLeft(e)
        pki == IF go_left THEN e.ix - 1 ELSE e.ix
        lost == IF go_left THEN h[adj].values[Len(h[adj].values)] ELSE h[adj].values[1]
        child == IF go_left THEN h[adj].children[Len(h[adj].children)]
                            ELSE h[adj].children[1]
    IN  /\ h[p].children[e.ix + 1] = n
        /\ h[p].children[(IF go_left THEN e.ix - 1 ELSE e.ix + 1) + 1] = adj
        /\ g[adj].values = IF go_left THEN Front(h[adj].values) ELSE Tail(h[adj].values)
        /\ g[n].values = IF go_left THEN <<h[p].values[pki + 1]>> \o h[n].values
                                    ELSE h[n].values \o <<h[p].values[pki + 1]>>
        /\ g[p].values = [h[p].values EXCEPT ![pki + 1] = lost]
        /\ g[p].children = h[p].children
        /\ Len(g[n].values) + Len(g[p].values) + Len(g[adj].values)
              = Len(h[n].values) + Len(h[p].values) + Len(h[adj].values)
        /\ is_leaf(h, adj) =>
              /\ g[adj].children = <<>>
              /\ g[n].children = h[n].children
        /\ ~is_leaf(h, adj) =>
              /\ g[adj].children = IF go_left THEN Front(h[adj].children)
                                              ELSE Tail(h[adj].children)
              /\ g[n].children = IF go_left THEN <<child>> \o h[n].children
                                            ELSE h[n].children \o <<child>>
              /\ h[child].parent = adj
              /\ g[child].parent = n
        /\ DOMAIN g = DOMAIN h
        /\ \A x \in DOMAIN h \ {n, p, adj} :
              /\ g[x].values = h[x].values
              /\ g[x].children = h[x].children
              /\ (is_leaf(h, adj) \/ x # child) => g[x].parent = h[x].parent
        /\ e.post.root = e.pre.root
        /\ LeafDepths(g, e.post.root, 1) = LeafDepths(h, e.pre.root, 1)
        /\ e.d1 = e.d0

\* C12: a rotation moves exactly one key across the parent boundary: the
\* adjacent node loses its last key if go_left and its first otherwise, the
\* receiving node gains the parent's key at parent_key_index (prepended if
\* go_left, appended otherwise), the parent keeps its key count and only its
\* key at parent_key_index is replaced, the key count over the three nodes is
\* unchanged; when the adjacent node is internal exactly one child moves the
\* same way and gets the receiving node as parent; the depth is unchanged.
C12_Rotate == EveryDeleteStep(LAMBDA e : e.ev = "rotate" => RotateOK(e))

\* a delete rotated between internal nodes: the receiver took over a child
C12_Witness ==
    /\ last.op = "delete"
    /\ \E e \in Events :
          /\ e.ev = "rotate"
          /\ ~is_leaf(nodes, e.node)
          /\ Len(nodes[e.node].children) = Len(nodes[e.node].values) + 1
          /\ Len(nodes[e.other].values) >= min_order - 1

\* the effect of the merge e on the node, its parent and the adjacent node
MergeOK(e) ==
    LET h == e.pre.nodes
        g == e.post.nodes
        n == e.node
        adj == e.other
        p == h[n].parent
        go_left == GoLeft(e)
        pki == IF go_left THEN e.ix - 1 ELSE e.ix
        adj_ix == IF go_left THEN e.ix - 1 ELSE e.ix + 1
        pulled == h[p].values[pki + 1]
    IN  /\ h[p].children[e.ix + 1] = n
        /\ h[p].children[adj_ix + 1] = adj
        /\ Len(g[p].values) = Len(h[p].values) - 1
        /\ g[p].values = SubSeq(h[p].values, 1, pki)
                            \o SubSeq(h[p].values, pki + 2, Len(h[p].values))
        /\ Len(g[p].children) = Len(h[p].children) - 1
        /\ g[p].children = SubSeq(h[p].children, 1, adj_ix)
                              \o SubSeq(h[p].children, adj_ix + 2, Len(h[p].children))
        /\ g[n].values = IF go_left THEN h[adj].values \o <<pulled>> \o h[n].values
                                    ELSE h[n].values \o <<pulled>> \o h[adj].values
        /\ g[n].children = IF go_left THEN h[adj].children \o h[n].children
                                      ELSE h[n].children \o h[adj].children
        /\ n \in Range(g[p].children)
        /\ adj \notin Range(g[p].children)
        /\ adj \in Range(Preorder(h, e.pre.root))
        /\ adj \notin Range(Preorder(g, e.post.root))
        /\ n \in Range(Preorder(g, e.post.root))

\* C13: a merge removes from the parent exactly the key at parent_key_index
\* and exactly the slot of the adjacent node; the merging node then holds
\* adjacent keys + [pulled key] + own keys and adjacent children + own children
\* if go_left, own keys + [pulled key] + adjacent keys and own children +
\* adjacent children otherwise; it stays among the parent's children and the
\* adjacent node is no longer reachable from the root.
C13_Merge == EveryDeleteStep(LAMBDA e : e.ev = "merge" => MergeOK(e))

\* a delete merged two internal nodes: the merged node holds the children of both
C13_Witness ==
    /\ last.op = "delete"
    /\ \E e \in Events :
          /\ e.ev = "merge"
          /\ e.other \notin DOMAIN nodes
          /\ e.node \in DOMAIN nodes
          /\ ~is_leaf(nodes, e.node)

\* x is a sibling that holds more than the minimum number of keys
CanDonate(h, x) == x # NULL /\ Len(h[x].values) > Ceil2(tree_order) - 1

\* the siblings of node n by its position among the children of its parent
LeftOf(h, n) ==
    IF ChildIx(h, n) >= 1 THEN h[h[n].parent].children[ChildIx(h, n)] ELSE NULL

RightOf(h, n) ==
    IF ChildIx(h, n) + 2 <= Len(h[h[n].parent].children)
    THEN h[h[n].parent].children[ChildIx(h, n) + 2] ELSE NULL

\* the step e resolves the underflow of e.node in the prescribed order
ResolutionOK(e) ==
    LET h == e.pre.nodes
        left == LeftOf(h, e.node)
        right == RightOf(h, e.node)
    IN  /\ left # NULL \/ right # NULL
        /\ IF CanDonate(h, left) THEN e.ev = "rotate" /\ e.other = left
           ELSE IF CanDonate(h, right) THEN e.ev = "rotate" /\ e.other = right
           ELSE /\ e.ev = "merge"
                /\ e.other = IF left # NULL THEN left ELSE right
        /\ e.ev = "merge" => \A x \in {left, right} \ {NULL} :
                                 Len(h[x].values) <= Ceil2(tree_order) - 1

\* C14: an underflowing non-root node borrows from its left sibling if that
\* exists and holds more than the minimum, otherwise from its right sibling if
\* that exists and holds more than the minimum; it merges only when no sibling
\* can donate, with the left sibling if there is one and the right one
\* otherwise; no merge is made while a sibling holds more than the minimum.
C14_ResolutionOrder ==
    EveryDeleteStep(LAMBDA e : e.ev \in {"rotate", "merge"} => ResolutionOK(e))

\* a delete borrowed from the right sibling of a node that has a left sibling
\* too, which holds the minimum
C14_Witness ==
    /\ last.op = "delete"
    /\ Len(last.log) = 1
    /\ last.log[1].ev = "rotate"
    /\ ChildIx(nodes, last.log[1].node) >= 1
    /\ ChildIx(nodes, last.log[1].other) = ChildIx(nodes, last.log[1].node) + 1
    /\ Len(nodes[LeftOf(nodes, last.log[1].node)].values) = Ceil2(tree_order) - 1

\* C15 as stated: every call of _split_insert returns the node it was called
\* with.  The calls of one insert are the steps of its log, call i being made
\* with log[i].node; a call that recurses returns what the recursive call
\* returns, so all of them return the value t.ret of the last one.
C15_AsStated ==
    EveryInsert(LAMBDA t : \A i \in 1..Len(t.log) : t.ret = t.log[i].node)

\* what the calls return: the node of the last split of the chain, which is
\* the node of the call only for the call that does not recurse
C15_ReturnsLastSplit ==
    EveryInsert(LAMBDA t : Len(t.log) >= 1 =>
        /\ t.ret = t.log[Len(t.log)].node
        /\ \A i \in 1..(Len(t.log) - 1) : t.ret # t.log[i].node)

\* an insert whose split propagated to the parent
C15_Witness ==
    /\ last.op = "insert"
    /\ Len(last.log) >= 2
    /\ last.log[1].ev = "split"
    /\ nodes[last.log[1].node].parent = last.log[2].node

\* the split e of the root: the new root above the two halves
RootSplitOK(e) ==
    LET h == e.pre.nodes
        g == e.post.nodes
        n == e.node
        new == e.post.root
    IN  /\ e.pre.root = n
        /\ new \notin DOMAIN h
        /\ new # n
        /\ e.other \notin DOMAIN h
        /\ g[new].values = <<h[n].values[Floor2(tree_order) + 1]>>
        /\ g[new].children = <<n, e.other>>
        /\ g[new].parent = NULL
        /\ g[n].parent = new
        /\ g[e.other].parent = new
        /\ ~is_root(g, n)

\* the split e of a node below the root: the parent takes the median and the
\* new right node
NonRootSplitOK(e) ==
    LET h == e.pre.nodes
        g == e.post.nodes
        n == e.node
        p == h[n].parent
        ix == ChildIx(h, n)
        median == h[n].values[Floor2(tree_order) + 1]
    IN  /\ e.pre.root # n
        /\ e.post.root = e.pre.root
        /\ g[n].parent = p
        /\ g[e.other].parent = p
        /\ Len(g[p].children) = Len(h[p].children) + 1
        /\ g[p].children[ix + 1] = n
        /\ g[p].children[ix + 2] = e.other
        /\ g[p].children = SubSeq(h[p].children, 1, ix + 1) \o <<e.other>>
                              \o SubSeq(h[p].children, ix + 2, Len(h[p].children))
        /\ g[p].values[ix + 1] = median
        /\ g[p].values = SubSeq(h[p].values, 1, ix) \o <<median>>
                            \o SubSeq(h[p].values, ix + 1, Len(h[p].values))

\* C16: a split of the root creates a new root whose only key is the median
\* and whose children are the old root and the new right node in this order;
\* it is the root of the tree, both halves have it as parent and the old root
\* is no longer the root.  A split of a non-root node puts the new right node
\* into the parent's children right after the split node and the median into
\* the parent's keys at the child index of the split node.
C16_SplitLinks ==
    EveryInsertStep(LAMBDA e : /\ e.ev = "root_split" => RootSplitOK(e)
                               /\ e.ev = "split" => NonRootSplitOK(e))

\* an insert split a leaf that is neither the first nor the last child, and
\* the split went on to the root
C16_Witness ==
    /\ last.op = "insert"
    /\ Len(last.log) = 2
    /\ last.log[1].ev = "split"
    /\ last.log[2].ev = "root_split"
    /\ last.log[2].node = nodes[last.log[1].node].parent
    /\ ChildIx(nodes, last.log[1].node) >= 1
    /\ nodes[root].children = <<last.log[2].node, last.log[2].other>>

\* the cascade of the delete run t: what follows each of its steps
CascadeOK(t) ==
    \A i \in 1..Len(t.log) :
        LET e == t.log[i]
            g == e.post.nodes
            p == e.pre.nodes[e.node].parent
        IN  /\ e.ev = "rotate" => i = Len(t.log)
            /\ e.ev = "merge" =>
                  /\ i < Len(t.log) <=>
                        \/ Len(g[p].values) = 0
                        \/ g[p].parent # NULL /\ Len(g[p].values) < Ceil2(tree_order) - 1
                  /\ i < Len(t.log) =>
                        /\ t.log[i + 1].node = p
                        /\ t.log[i + 1].pre = e.post
                        /\ t.log[i + 1].ix = ChildIx(g, p)
                        /\ g[p].parent = NULL => t.log[i + 1].ix = 0

\* C17: after a merge the underflow resolution is applied to the parent if and
\* only if the parent is left with 0 keys or is a non-root node with fewer
\* than ceil(m/2)-1 keys; after a rotation nothing more is restructured; the
\* index passed with the parent is its position among the children of the
\* grandparent, and 0 if the parent is the root.
C17_Cascade == EveryDelete(CascadeOK)

\* a delete in a tree of order 5 merged two leaves, which left their parent, a
\* non-root node, with 1 key; the parent borrowed a key from its sibling and
\* nothing more was restructured
C17_Witness ==
    /\ tree_order = 5
    /\ last.op = "delete"
    /\ Len(last.log) = 2
    /\ last.log[1].ev = "merge"
    /\ last.log[2].ev = "rotate"
    /\ last.log[2].node = nodes[last.log[1].node].parent
    /\ last.log[2].node # root
    /\ Len(nodes[last.log[2].node].values) = Ceil2(tree_order) - 1

\* the level of node n in the heap h, the root being at level 1
RECURSIVE Level(_, _)
Level(h, n) == IF h[n].parent = NULL THEN 1 ELSE 1 + Level(h, h[n].parent)

\* the trees a and b have the same root and the same nodes
SameTree(a, b) ==
    /\ a.root = b.root
    /\ DOMAIN a.nodes = DOMAIN b.nodes
    /\ \A n \in DOMAIN a.nodes :
          /\ a.nodes[n].values = b.nodes[n].values
          /\ a.nodes[n].children = b.nodes[n].children
          /\ a.nodes[n].parent = b.nodes[n].parent

\* the steps of the run t, started in a tree of depth d, climb from a leaf
\* towards the root one level at a time
ClimbOK(t, d) ==
    /\ Len(t.log) <= d
    /\ Len(t.log) >= 1 => Level(t.log[1].pre.nodes, t.log[1].node) = d
    /\ \A i \in 1..Len(t.log) :
          /\ t.log[i].ev \in {"root_split", "collapse"}
                <=> is_root(t.log[i].pre.nodes, t.log[i].node)
          /\ is_root(t.log[i].pre.nodes, t.log[i].node) => i = Len(t.log)
    /\ \A i \in 1..(Len(t.log) - 1) :
          /\ SameTree(t.log[i + 1].pre, t.log[i].post)
          /\ t.log[i + 1].node = t.log[i].post.nodes[t.log[i].node].parent
          /\ t.log[i + 1].node = t.log[i].pre.nodes[t.log[i].node].parent
          /\ Level(t.log[i + 1].pre.nodes, t.log[i + 1].node)
                = Level(t.log[i].pre.nodes, t.log[i].node) - 1

\* C18: every insert and every delete ends after at most as many restructuring
\* steps as the tree has levels: the first step is made at a leaf, every
\* further step at the parent of the node of the step before, one level
\* higher, and no step follows a step made at the root.
C18_Climb ==
    /\ EveryInsert(LAMBDA t : ClimbOK(t, PathLen(nodes, root)))
    /\ EveryDelete(LAMBDA t : ClimbOK(t, PathLen(nodes, root)))

\* a delete restructured one node on each of the 3 levels of the tree
C18_Witness ==
    /\ last.op = "delete"
    /\ last.d0 = 3
    /\ Len(last.log) = 3
    /\ last.log[3].ev = "collapse"

\* the one minimum of a non-root node
MinKeys == Ceil2(tree_order) - 1

\* the thresholds seen in the delete run t
ThresholdsOK(t) ==
    /\ \A i \in 1..Len(t.log) :
          LET e == t.log[i]
              h == e.pre.nodes
              g == e.post.nodes
          IN  /\ e.ev \in {"rotate", "merge"} =>
                    /\ ~is_root(h, e.node)
                    /\ Len(h[e.node].values) < MinKeys
              /\ e.ev = "rotate" =>
                    /\ Len(h[e.other].values) >= Ceil2(tree_order)
                    /\ Len(g[e.other].values) >= MinKeys
                    /\ Len(g[e.node].values) = MinKeys
    /\ \A n \in DOMAIN t.nodes :
          (n \in Range(Preorder(t.nodes, t.root)) /\ n # t.root)
              => Len(t.nodes[n].values) >= MinKeys

\* C19: the underflow handling is applied to a non-root node, be it the leaf a
\* key was removed from or an internal node that lost a key to a merge,
\* exactly when it holds fewer than ceil(m/2)-1 keys: every node handled holds
\* fewer, and no node that holds fewer is left in the tree.  A sibling donates
\* only if it holds at least ceil(m/2) keys; after the rotation it holds at
\* least ceil(m/2)-1 and the receiver exactly ceil(m/2)-1.
C19_OneMinimum == EveryDelete(ThresholdsOK)

\* a delete in a tree of order 5 left an internal node with 1 key, which
\* borrowed from a sibling that held 3 keys: both hold the minimum of 2 now
C19_Witness ==
    /\ tree_order = 5
    /\ Len(last.log) = 2
    /\ last.log[2].ev = "rotate"
    /\ ~is_leaf(nodes, last.log[2].node)
    /\ Len(nodes[last.log[2].node].values) = 2
    /\ Len(nodes[last.log[2].other].values) = 2

\* C20: after every completed insert or delete a root that has children holds
\* at least one key and so at least two children; a root without keys is a
\* leaf and the tree is empty.
C20_RootHoldsKey ==
    /\ ~is_leaf(nodes, root) =>
          /\ Len(nodes[root].values) >= 1
          /\ Len(nodes[root].children) >= 2
    /\ Len(nodes[root].values) = 0 =>
          /\ is_leaf(nodes, root)
          /\ KeysOf(nodes, root) = {}
          /\ DOMAIN nodes = {root}

\* a delete merged the two children of a root that held one key; the root,
\* left without keys above the merged node, was replaced by that node
C20_Witness ==
    /\ last.op = "delete"
    /\ Len(last.log) = 2
    /\ last.log[1].ev = "merge"
    /\ last.log[2].ev = "collapse"
    /\ last.log[1].node = root
    /\ Len(nodes[root].values) >= 1

====
